---- MODULE Spec2Model ----
(***************************************************************************)
(* A model of thrift_client.py: the per-peer call (SimpleClient), the      *)
(* sequential and threaded broadcast (ReplicatedClient,                    *)
(* ThreadedReplicatedClient) and the hash router (HashClient).             *)
(*                                                                         *)
(* The module is Python 2 (`except Exception, e`), and every class is an   *)
(* old-style class whose __getattr__ answers any attribute that normal     *)
(* lookup does not find with the forwarding closure f.                     *)
(***************************************************************************)
EXTENDS Integers, Sequences, FiniteSets, TLC

VARIABLES
    peers,       \* the SimpleClient objects made so far; a peer's identity is its index
    ctimeout,    \* the timeout argument the dispatcher / router was constructed with
    servers,     \* ReplicatedClient.servers of the stand-alone dispatcher
    threaded,    \* whether that dispatcher is a ThreadedReplicatedClient
    hservers,    \* HashClient.servers
    allservers,  \* HashClient.all.servers
    hashfns,     \* HashClient.hashfns
    last,        \* what the last operation did and returned or raised
    mainpc,      \* threaded broadcast: position of the calling thread
    tpc,         \* threaded broadcast: position of each per-peer thread
    targs,       \* threaded broadcast: the server each thread was started with
    tenv,        \* threaded broadcast: what the collaborators do for each thread
    tresp,       \* threaded broadcast: the local `response` of each thread
    responses,   \* threaded broadcast: the shared list `responses`
    lock,        \* threaded broadcast: owner of the RLock (0: free)
    socks,       \* threaded broadcast: state of the TSocket each thread made
    selfsock     \* threaded broadcast: per peer, the thread whose TSocket
                 \* self.socket names (0: none made in this broadcast)

vars == <<peers, ctimeout, servers, threaded, hservers, allservers, hashfns, last,
          mainpc, tpc, targs, tenv, tresp, responses, lock, socks, selfsock>>

threadvars == <<mainpc, tpc, targs, tenv, tresp, responses, lock, socks, selfsock>>

(***************************************************************************)
(* Bounds of the model.                                                    *)
(***************************************************************************)
MaxPeers == 2      \* SimpleClient objects ever constructed
MaxServers == 2    \* length of a peer list

(***************************************************************************)
(* Values.  An optional value is a sequence: << >> is None, <<x>> is x.    *)
(***************************************************************************)
None == << >>
Some(x) == <<x>>
IsNone(o) == o = << >>

_DEFAULT_TIMEOUT == 60001

Methods == {"ping", "get"}

\* host arguments are strings, kept as sequences of characters
HostArgs == { <<"a">>, <<"a", ":", "1">>, <<"b", ":", "2">> }
PortArgs == { None, Some(1) }
TimeoutArgs == { None, Some(5) }

Digits == "0" :> 0 @@ "1" :> 1 @@ "2" :> 2 @@ "3" :> 3 @@ "4" :> 4 @@
          "5" :> 5 @@ "6" :> 6 @@ "7" :> 7 @@ "8" :> 8 @@ "9" :> 9

\* str.split(sep): the pieces between the separators
RECURSIVE SplitAcc(_, _, _)
SplitAcc(s, sep, cur) ==
    IF s = << >> THEN <<cur>>
    ELSE IF Head(s) = sep THEN <<cur>> \o SplitAcc(Tail(s), sep, << >>)
    ELSE SplitAcc(Tail(s), sep, Append(cur, Head(s)))

Split(s, sep) == SplitAcc(s, sep, << >>)

IsDigits(s) == s # << >> /\ \A i \in 1..Len(s) : s[i] \in DOMAIN Digits

\* int(s) of a string of decimal digits
RECURSIVE ParseInt(_)
ParseInt(s) ==
    IF s = << >> THEN 0
    ELSE 10 * ParseInt(SubSeq(s, 1, Len(s) - 1)) + Digits[s[Len(s)]]

Raise(exc) == [raised |-> TRUE, exc |-> exc]

_canonicalize_hostport_port0(host, port) ==
    IF ~IsNone(port)
    THEN [raised |-> FALSE, host |-> host, port |-> port[1]]
    ELSE IF IsNone(host)
    THEN Raise("TypeError")
    ELSE IF \E i \in 1..Len(host[1]) : host[1][i] = ":"
    THEN LET parts == Split(host[1], ":") IN
         IF Len(parts) # 2 THEN Raise("ValueError")
         ELSE IF ~IsDigits(parts[2]) THEN Raise("ValueError")
         ELSE [raised |-> FALSE, host |-> Some(parts[1]), port |-> ParseInt(parts[2])]
    ELSE [raised |-> FALSE, host |-> host, port |-> 0]

\* _canonicalize_hostport(host, port); `host` is None or Some(string)
_canonicalize_hostport(host, port) ==
    IF ~IsNone(port)
    THEN [raised |-> FALSE, host |-> host, port |-> port[1]]
    ELSE IF IsNone(host)
    THEN Raise("TypeError")                 \* ':' in None
    ELSE IF \E i \in 1..Len(host[1]) : host[1][i] = ":"
    THEN LET parts == Split(host[1], ":") IN
         IF Len(parts) # 2 THEN Raise("ValueError")          \* host, port = ... unpacking
         ELSE IF ~IsDigits(parts[2]) THEN Raise("ValueError") \* int(port)
         ELSE [raised |-> FALSE, host |-> Some(parts[1]), port |-> ParseInt(parts[2])]
    ELSE Raise("ValueError")

(***************************************************************************)
(* SimpleClient: one remote endpoint.                                      *)
(***************************************************************************)

\* `timeout or _DEFAULT_TIMEOUT`: None and 0 are both false
TimeoutOr(timeout) ==
    IF IsNone(timeout) \/ timeout = Some(0) THEN _DEFAULT_TIMEOUT ELSE timeout[1]

\* SimpleClient.__init__.  self.socket is not an attribute yet: _connect makes
\* a new TSocket on every invocation, and an invocation reads self.socket only
\* after its own _connect has set it.
SimpleClient(host, port, log_filename, timeout) ==
    LET hp == _canonicalize_hostport(host, port) IN
    IF hp.raised THEN hp
    ELSE [raised |-> FALSE,
          obj |-> [host |-> hp.host, port |-> hp.port,
                   timeout |-> TimeoutOr(timeout),
                   file |-> log_filename, enabled |-> TRUE]]

PeerIds == 1..Len(peers)

(***************************************************************************)
(* What the collaborators do in one invocation (the thrift transport, the  *)
(* stub and the remote end): everything works, or one of the four calls    *)
(* the invocation makes on them raises.                                    *)
(***************************************************************************)
Behaviours == {"ok", "audit_open_fails", "audit_call_fails", "connect_fails", "remote_fails"}

\* the peers of a dispatcher are made by add_server, without a log file
BroadcastBehaviours == {"ok", "connect_fails", "remote_fails"}

\* lines 97-102: the audit write. _connect_file is called outside the try;
\* without a file, client_file is unbound and the NameError is swallowed.
AuditOpenRaises(peer, b) == peer.file /\ b = "audit_open_fails"

AuditEvents(peer, b) ==
    IF ~peer.file THEN << >>
    ELSE IF b = "audit_open_fails" THEN <<"audit_open">>
    ELSE <<"audit_open", "audit_call">>

RejectsCall_never(peer) == FALSE

\* line 95: the enabled check
RejectsCall(peer) == ~peer.enabled

\* lines 95-104 of f: up to and including _connect.  `sock` is the state of
\* the TSocket this invocation made: "none" when it made none.
CallPrologue(peer, b) ==
    IF RejectsCall(peer)
    THEN [raised |-> TRUE, val |-> "ClientDisabledError", events |-> << >>,
          connected |-> FALSE, sock |-> "none"]
    ELSE IF AuditOpenRaises(peer, b)
    THEN [raised |-> TRUE, val |-> "AuditOpenError", events |-> AuditEvents(peer, b),
          connected |-> FALSE, sock |-> "none"]
    ELSE IF b = "connect_fails"
    THEN [raised |-> TRUE, val |-> "ConnectError",
          events |-> AuditEvents(peer, b) \o <<"connect">>,
          connected |-> FALSE, sock |-> "closed"]
    ELSE [raised |-> FALSE, val |-> "client",
          events |-> AuditEvents(peer, b) \o <<"connect">>,
          connected |-> TRUE, sock |-> "open"]

\* line 105: the remote call over the client's own socket
RemoteCall(b, ownSockOpen) ==
    IF ~ownSockOpen \/ b = "remote_fails"
    THEN [raised |-> TRUE, val |-> "RemoteError"]
    ELSE [raised |-> FALSE, val |-> "pong"]

\* lines 105-107: what follows a remote call that raised / that returned
AfterRemote(r, events) ==
    IF r.raised
    THEN [raised |-> TRUE, val |-> r.val, events |-> events \o <<"remote">>,
          connected |-> TRUE, sock |-> "open"]
    ELSE [raised |-> FALSE, val |-> r.val, events |-> events \o <<"remote", "close">>,
          connected |-> TRUE, sock |-> "closed"]

\* SimpleClient.__getattr__(k)(args, kwargs) on the calling thread
SimpleClient_call(peer, b) ==
    LET pro == CallPrologue(peer, b) IN
    IF pro.raised THEN pro
    ELSE AfterRemote(RemoteCall(b, TRUE), pro.events)

AfterCall_disabling(peer, raised) ==
    IF raised THEN [peer EXCEPT !.enabled = FALSE] ELSE peer

\* the peer object after f ran, having raised or returned: f assigns
\* self.socket (line 74), which the invocation's own result carries here,
\* and no other attribute of self
AfterCall(peer, raised) == peer

\* a Call Outcome / a raised exception: the exception's `server` attribute is
\* None until somebody sets it
NoTag == None

NoHashfns == [m \in {} |-> "none"]

\* the state after construction, the dispatcher / router having been given
\* one of `timeouts` and the dispatcher being of one of `classes`
Constructed(timeouts, classes) ==
    /\ peers = << >>
    /\ ctimeout \in timeouts
    /\ servers = << >>
    /\ threaded \in classes
    /\ hservers = << >>
    /\ allservers = << >>
    /\ hashfns = NoHashfns
    /\ last = [op |-> "init"]
    /\ mainpc = "idle"
    /\ tpc = << >>
    /\ targs = << >>
    /\ tenv = << >>
    /\ tresp = << >>
    /\ responses = << >>
    /\ lock = 0
    /\ socks = << >>
    /\ selfsock = << >>

Init == Constructed({None}, {FALSE})

Idle == mainpc = "idle"

dispvars == <<servers, threaded>>
hashvars == <<hservers, allservers, hashfns>>

(***************************************************************************)
(* Operations on a peer, made by the caller.                               *)
(***************************************************************************)

\* the caller constructs a SimpleClient itself
NewPeer(host, port, log_filename, timeout) ==
    /\ Idle
    /\ Len(peers) < MaxPeers
    /\ LET r == SimpleClient(host, port, log_filename, timeout) IN
       /\ peers' = IF r.raised THEN peers ELSE Append(peers, r.obj)
       /\ last' = [op |-> "new", raised |-> r.raised,
                   val |-> IF r.raised THEN r.exc ELSE "peer"]
    /\ UNCHANGED <<ctimeout, dispvars, hashvars, threadvars>>

\* the operation right before this one was a direct call on p that p refused
JustRejected(p) ==
    last.op = "call" /\ last.peer = p /\ last.val = "ClientDisabledError"

SetEnabled(heap, p, flag) == [heap EXCEPT ![p].enabled = flag]

enable(p) ==
    /\ Idle
    /\ peers' = SetEnabled(peers, p, TRUE)
    /\ last' = [op |-> "enable", peer |-> p, was |-> peers[p].enabled,
                rejected |-> JustRejected(p)]
    /\ UNCHANGED <<ctimeout, dispvars, hashvars, threadvars>>

disable(p) ==
    /\ Idle
    /\ peers' = SetEnabled(peers, p, FALSE)
    /\ last' = [op |-> "disable", peer |-> p, was |-> peers[p].enabled,
                rejected |-> JustRejected(p)]
    /\ UNCHANGED <<ctimeout, dispvars, hashvars, threadvars>>

\* the operation on peer p that came right before this one, if it was an
\* enable() or a disable()
JustToggled(p) ==
    IF last.op \in {"enable", "disable"} /\ last.peer = p
    THEN <<last.op, last.was, last.rejected>> ELSE << >>

\* peer.k(args, kwargs), called directly
PeerCall(p, b) ==
    /\ Idle
    /\ LET r == SimpleClient_call(peers[p], b) IN
       /\ last' = [op |-> "call", peer |-> p, b |-> b, raised |-> r.raised,
                   val |-> r.val, server |-> NoTag, events |-> r.events,
                   sock |-> r.sock, after |-> JustToggled(p)]
       /\ peers' = [peers EXCEPT ![p] = AfterCall(@, r.raised)]
    /\ UNCHANGED <<ctimeout, dispvars, hashvars, threadvars>>

NextPeer ==
    \/ \E log \in BOOLEAN : NewPeer(Some(<<"a", ":", "1">>), None, log, None)
    \/ \E p \in PeerIds : enable(p)
    \/ \E p \in PeerIds : disable(p)
    \/ \E p \in PeerIds, b \in Behaviours : PeerCall(p, b)

SpecPeer == Init /\ [][NextPeer]_vars

(***************************************************************************)
(* ReplicatedClient: the broadcast dispatcher.                             *)
(***************************************************************************)

\* list.remove(x): drops the first element equal to x.  SimpleClient defines
\* no __eq__ / __cmp__, so equality is identity.
RECURSIVE ListRemove(_, _)
ListRemove(list, x) ==
    IF list = << >> THEN << >>
    ELSE IF Head(list) = x THEN Tail(list)
    ELSE <<Head(list)>> \o ListRemove(Tail(list), x)

\* ReplicatedClient.__init__ sets self.timeout = None whatever it is given
ReplicatedTimeout(timeout) == None

\* ReplicatedClient.add_server(host, port, server); `server` is None or Some(p)
ReplicatedClient_add_server(heap, list, host, port, server, timeout) ==
    IF ~IsNone(server)
    THEN [raised |-> FALSE, heap |-> heap, list |-> Append(list, server[1])]
    ELSE LET r == SimpleClient(host, port, FALSE, timeout) IN
         IF r.raised THEN [raised |-> TRUE, exc |-> r.exc, heap |-> heap, list |-> list]
         ELSE [raised |-> FALSE, heap |-> Append(heap, r.obj),
               list |-> Append(list, Len(heap) + 1)]

\* ReplicatedClient.remove_server(server, host, port)
ReplicatedClient_remove_server(heap, list, server, host, port) ==
    IF ~IsNone(server)
    THEN IF \E i \in 1..Len(list) : list[i] = server[1]
         THEN [raised |-> FALSE, list |-> ListRemove(list, server[1])]
         ELSE [raised |-> TRUE, exc |-> "ValueError", list |-> list]
    ELSE LET hp == _canonicalize_hostport(host, port) IN
         IF hp.raised THEN [raised |-> TRUE, exc |-> hp.exc, list |-> list]
         ELSE [raised |-> FALSE,
               list |-> SelectSeq(list, LAMBDA s :
                            <<hp.host, hp.port>> # <<heap[s].host, heap[s].port>>)]

Response_asvalue(p, r) == [server |-> p, ok |-> TRUE, val |-> r.val]

\* ThriftResponse(server, value) / ThriftExceptionResponse(server, e)
Response(p, r) == [server |-> p, ok |-> ~r.raised, val |-> r.val]

BroadcastStep_dropfailed(acc, p, r) ==
    IF r.raised THEN acc ELSE Append(acc, Response(p, r))

\* lines 149-153: the body of the loop over self.servers
BroadcastStep(acc, p, r) == Append(acc, Response(p, r))

\* lines 147-154: the loop, peer after peer on the calling thread
RECURSIVE ReplicatedLoop(_, _, _, _, _)
ReplicatedLoop(heap, list, bs, i, acc) ==
    IF i > Len(list) THEN acc
    ELSE ReplicatedLoop(heap, list, bs, i + 1,
             BroadcastStep(acc, list[i], SimpleClient_call(heap[list[i]], bs[i])))

\* ReplicatedClient.__getattr__(k)(args, kwargs)
ReplicatedClient_call(heap, list, bs) == ReplicatedLoop(heap, list, bs, 1, << >>)

\* what add_server / remove_server was given, what it returned (self) or
\* raised, and the peer list(s) of the object `on` it was called on before
AddrResult(op, on, r, server, host, port, before) ==
    [op |-> op, on |-> on, raised |-> r.raised,
     val |-> IF r.raised THEN r.exc ELSE "self",
     server |-> server, host |-> host, port |-> port, before |-> before]

add_server(host, port, server) ==
    /\ Idle
    /\ Len(servers) < MaxServers
    /\ IsNone(server) => Len(peers) < MaxPeers
    /\ LET r == ReplicatedClient_add_server(peers, servers, host, port, server,
                                            ReplicatedTimeout(ctimeout)) IN
       /\ peers' = r.heap
       /\ servers' = r.list
       /\ last' = AddrResult("add_server", "dispatcher", r, server, host, port,
                             <<servers>>)
    /\ UNCHANGED <<ctimeout, threaded, hashvars, threadvars>>

remove_server(server, host, port) ==
    /\ Idle
    /\ LET r == ReplicatedClient_remove_server(peers, servers, server, host, port) IN
       /\ servers' = r.list
       /\ last' = AddrResult("remove_server", "dispatcher", r, server, host, port,
                             <<servers>>)
    /\ UNCHANGED <<peers, ctimeout, threaded, hashvars, threadvars>>

\* the peer objects after the invocations that gave `resps`
RECURSIVE HeapAfter(_, _)
HeapAfter(heap, resps) ==
    IF resps = << >> THEN heap
    ELSE HeapAfter([heap EXCEPT ![Head(resps).server] = AfterCall(@, ~Head(resps).ok)],
                   Tail(resps))

\* k(args, kwargs) on the ReplicatedClient `on`, whose self.servers is `list`
Broadcast(on, list, bs) ==
    /\ Idle
    /\ ~threaded
    /\ LET resps == ReplicatedClient_call(peers, list, bs) IN
       /\ last' = [op |-> "broadcast", on |-> on, list |-> list,
                   raised |-> FALSE, bs |-> bs, responses |-> resps]
       /\ peers' = HeapAfter(peers, resps)
    /\ UNCHANGED <<ctimeout, dispvars, hashvars, threadvars>>

\* ThriftResponse.value() / ThriftExceptionResponse.value()
Response_value(resp) ==
    IF resp.ok
    THEN [raised |-> FALSE, val |-> resp.val, server |-> NoTag]
    ELSE [raised |-> TRUE, val |-> resp.val, server |-> Some(resp.server)]

\* the caller takes value() of the i-th response of the broadcast it just made
value(i) ==
    /\ Idle
    /\ last.op \in {"broadcast", "par_broadcast"}
    /\ i \in 1..Len(last.responses)
    /\ LET r == Response_value(last.responses[i]) IN
       last' = [op |-> "value", resp |-> last.responses[i], raised |-> r.raised,
                val |-> r.val, server |-> r.server]
    /\ UNCHANGED <<peers, ctimeout, dispvars, hashvars, threadvars>>

\* dispatcher.k(args, kwargs) on a ReplicatedClient
SeqBroadcast(bs) == Broadcast("dispatcher", servers, bs)

NextSeq ==
    \/ NewPeer(Some(<<"a", ":", "1">>), None, FALSE, None)
    \/ \E h \in {<<"a">>, <<"b", ":", "2">>} : add_server(Some(h), None, None)
    \/ \E p \in PeerIds : add_server(None, None, Some(p))
    \/ \E p \in PeerIds : remove_server(Some(p), None, None)
    \/ \E h \in {<<"b", ":", "2">>} : remove_server(None, Some(h), None)
    \/ \E p \in PeerIds : enable(p)
    \/ \E p \in PeerIds : disable(p)
    \/ \E bs \in [1..Len(servers) -> BroadcastBehaviours] : SeqBroadcast(bs)

SpecSeq == Init /\ [][NextSeq]_vars

(***************************************************************************)
(* ThreadedReplicatedClient.__getattr__(k)(args, kwargs): one thread    *)
(* per entry of self.servers.  Thread i runs get_response(servers[i]):     *)
(*   start   -> lines 95-104 of the peer's f (check, audit, _connect)      *)
(*   remote  -> line 105, the remote call over the thread's own socket     *)
(*   close   -> line 106, self.socket.close(): whichever TSocket the       *)
(*              peer's self.socket names now                               *)
(*   acquire -> lock.acquire()                                             *)
(*   locked  -> responses.append(response); lock.release()                 *)
(***************************************************************************)
Threads == 1..Len(tpc)

\* lines 166-167 and 177-181: responses = [], a new lock, and one thread per
\* entry of self.servers, each given its server (args=(server,)), started.
\* `on` names the dispatcher whose method was called and `list` is its
\* self.servers.
StartThreads(on, list, bs) ==
    /\ Idle
    /\ threaded
    /\ mainpc' = "join"
    /\ tpc' = [i \in 1..Len(list) |-> "start"]
    /\ targs' = list
    /\ tenv' = bs
    /\ tresp' = [i \in 1..Len(list) |-> None]
    /\ responses' = << >>
    /\ lock' = 0
    /\ socks' = [i \in 1..Len(list) |-> "none"]
    /\ selfsock' = [p \in PeerIds |-> 0]
    /\ last' = [op |-> "par_start", on |-> on]
    /\ UNCHANGED <<peers, ctimeout, dispvars, hashvars>>

\* dispatcher.k(args, kwargs) on a ThreadedReplicatedClient
ParStart(bs) == StartThreads("dispatcher", servers, bs)

T_connect(i) ==
    /\ tpc[i] = "start"
    /\ LET p == targs[i]
           pro == CallPrologue(peers[p], tenv[i])
       IN /\ IF pro.sock = "none"
             THEN UNCHANGED <<socks, selfsock>>
             ELSE /\ socks' = [socks EXCEPT ![i] = pro.sock]
                  /\ selfsock' = [selfsock EXCEPT ![p] = i]
          /\ IF pro.raised
             THEN /\ tresp' = [tresp EXCEPT ![i] = Some(Response(p, pro))]
                  /\ tpc' = [tpc EXCEPT ![i] = "acquire"]
                  /\ peers' = [peers EXCEPT ![p] = AfterCall(@, TRUE)]
             ELSE /\ tpc' = [tpc EXCEPT ![i] = "remote"]
                  /\ UNCHANGED <<tresp, peers>>
    /\ UNCHANGED <<ctimeout, dispvars, hashvars, last,
                   mainpc, targs, tenv, responses, lock>>

T_remote(i) ==
    /\ tpc[i] = "remote"
    /\ LET r == RemoteCall(tenv[i], socks[i] = "open") IN
       /\ tresp' = [tresp EXCEPT ![i] = Some(Response(targs[i], r))]
       /\ tpc' = [tpc EXCEPT ![i] = IF r.raised THEN "acquire" ELSE "close"]
       /\ peers' = IF r.raised THEN [peers EXCEPT ![targs[i]] = AfterCall(@, TRUE)]
                   ELSE peers
    /\ UNCHANGED <<ctimeout, dispvars, hashvars, last,
                   mainpc, targs, tenv, responses, lock, socks, selfsock>>

T_close(i) ==
    /\ tpc[i] = "close"
    /\ socks' = [socks EXCEPT ![selfsock[targs[i]]] = "closed"]
    /\ tpc' = [tpc EXCEPT ![i] = "acquire"]
    /\ peers' = [peers EXCEPT ![targs[i]] = AfterCall(@, FALSE)]
    /\ UNCHANGED <<ctimeout, dispvars, hashvars, last,
                   mainpc, targs, tenv, tresp, responses, lock, selfsock>>

\* lock.acquire() of an RLock no other thread owns
CanAcquire(owner, i) == owner = 0 \/ owner = i

T_acquire(i) ==
    /\ tpc[i] = "acquire"
    /\ CanAcquire(lock, i)
    /\ lock' = i
    /\ tpc' = [tpc EXCEPT ![i] = "locked"]
    /\ UNCHANGED <<peers, ctimeout, dispvars, hashvars, last,
                   mainpc, targs, tenv, tresp, responses, socks, selfsock>>

T_append(i) ==
    /\ tpc[i] = "locked"
    /\ responses' = Append(responses, tresp[i][1])
    /\ lock' = 0
    /\ tpc' = [tpc EXCEPT ![i] = "done"]
    /\ UNCHANGED <<peers, ctimeout, dispvars, hashvars, last,
                   mainpc, targs, tenv, tresp, socks, selfsock>>

AllJoined_first(pcs) == IF Len(pcs) = 0 THEN TRUE ELSE pcs[1] = "done"

\* lines 182-183: thread.join() for every thread
AllJoined(pcs) == \A i \in 1..Len(pcs) : pcs[i] = "done"

\* line 184: return responses.  The threads and the lock are then garbage.
ParReturn ==
    /\ mainpc = "join"
    /\ AllJoined(tpc)
    /\ last' = [op |-> "par_broadcast", on |-> last.on, list |-> targs,
                raised |-> FALSE, bs |-> tenv,
                responses |-> responses, tresp |-> tresp, tpc |-> tpc,
                socks |-> socks, selfsock |-> selfsock]
    /\ mainpc' = "idle"
    /\ tpc' = << >>
    /\ targs' = << >>
    /\ tenv' = << >>
    /\ tresp' = << >>
    /\ responses' = << >>
    /\ lock' = 0
    /\ socks' = << >>
    /\ selfsock' = << >>
    /\ UNCHANGED <<peers, ctimeout, dispvars, hashvars>>

NextBroadcast ==
    \/ \E h \in {<<"a">>, <<"b", ":", "2">>} : add_server(Some(h), None, None)
    \/ \E p \in PeerIds : add_server(None, None, Some(p))
    \/ \E p \in PeerIds : enable(p)
    \/ \E p \in PeerIds : disable(p)
    \/ \E bs \in [1..Len(servers) -> BroadcastBehaviours] : SeqBroadcast(bs)
    \/ \E bs \in [1..Len(servers) -> BroadcastBehaviours] : ParStart(bs)
    \/ \E i \in Threads : T_connect(i)
    \/ \E i \in Threads : T_remote(i)
    \/ \E i \in Threads : T_close(i)
    \/ \E i \in Threads : T_acquire(i)
    \/ \E i \in Threads : T_append(i)
    \/ ParReturn

SpecBroadcast == Constructed({None}, BOOLEAN) /\ [][NextBroadcast]_vars

(***************************************************************************)
(* HashClient: the hash router.  `threaded` says whether it is a           *)
(* ThreadedHashClient, whose `all` is a ThreadedReplicatedClient.          *)
(***************************************************************************)

\* the class statements: each class and its base classes
ClassBases ==
    [c \in {"SimpleClient", "ReplicatedClient", "ThreadedReplicatedClient",
            "HashClient", "ThreadedHashClient"} |->
        CASE c = "ThreadedReplicatedClient" -> {"ReplicatedClient"}
          [] c = "ThreadedHashClient" -> {"HashClient"}
          [] OTHER -> {}]

\* isinstance(an instance of cls, target); the hierarchy is two levels deep
IsInstance(cls, target) ==
    \/ cls = target
    \/ target \in ClassBases[cls]
    \/ \E base \in ClassBases[cls] : target \in ClassBases[base]

RouterClass == IF threaded THEN "ThreadedHashClient" ELSE "HashClient"

\* the instance attributes HashClient.__init__ sets; any other name that is
\* no method goes to __getattr__, which returns the closure f
HashClientAttrs == {"servers", "protocol", "frame", "timeout", "all", "hashfns"}

HashClient_add_server_ownonly(heap, own, all, host, port, server, timeout) ==
    IF ~IsNone(server)
    THEN [raised |-> FALSE, heap |-> heap, own |-> Append(own, server[1]), all |-> all]
    ELSE LET r == SimpleClient(host, port, FALSE, timeout) IN
         IF r.raised
         THEN [raised |-> TRUE, exc |-> r.exc, heap |-> heap, own |-> own, all |-> all]
         ELSE [raised |-> FALSE, heap |-> Append(heap, r.obj),
               own |-> Append(own, Len(heap) + 1), all |-> all]

\* HashClient.add_server(host, port, server)
HashClient_add_server(heap, own, all, host, port, server, timeout) ==
    LET made == IF ~IsNone(server)
                THEN [raised |-> FALSE, heap |-> heap, id |-> server[1]]
                ELSE LET r == SimpleClient(host, port, FALSE, timeout) IN
                     IF r.raised THEN [raised |-> TRUE, exc |-> r.exc]
                     ELSE [raised |-> FALSE, heap |-> Append(heap, r.obj),
                           id |-> Len(heap) + 1]
    IN IF made.raised
       THEN [raised |-> TRUE, exc |-> made.exc, heap |-> heap, own |-> own, all |-> all]
       ELSE LET a == ReplicatedClient_add_server(made.heap, all, None, None,
                                                 Some(made.id), None)
            IN [raised |-> FALSE, heap |-> a.heap,
                own |-> Append(own, made.id), all |-> a.list]

\* HashClient.remove_server(server, host, port).  Line 209 calls the unbound
\* method ReplicatedClient.remove_server with the router as self: Python 2
\* raises TypeError unless self is an instance of ReplicatedClient.
HashClient_remove_server(cls, heap, own, all, server, host, port) ==
    IF ~IsInstance(cls, "ReplicatedClient")
    THEN [raised |-> TRUE, exc |-> "TypeError", own |-> own, all |-> all]
    ELSE LET r1 == ReplicatedClient_remove_server(heap, own, server, host, port) IN
         IF r1.raised
         THEN [raised |-> TRUE, exc |-> r1.exc, own |-> own, all |-> all]
         ELSE LET r2 == ReplicatedClient_remove_server(heap, all, server, host, port) IN
              IF r2.raised
              THEN [raised |-> TRUE, exc |-> r2.exc, own |-> r1.list, all |-> all]
              ELSE [raised |-> FALSE, own |-> r1.list, all |-> r2.list]

\* HashClient.set_hash(fnname, hashfn).  Line 214 stores into self.hashfuncs,
\* not self.hashfns: no such attribute, so __getattr__ returns the closure f
\* and f[fnname] = hashfn raises TypeError.
HashClient_set_hash(fns, fnname, hashfn) ==
    IF "hashfuncs" \in HashClientAttrs
    THEN [raised |-> FALSE, hashfns |-> fns]
    ELSE [raised |-> TRUE, exc |-> "TypeError", hashfns |-> fns]

(***************************************************************************)
(* Routing.  Positional arguments are integers; keyword arguments are a    *)
(* sequence of <<name, value>> pairs in the order the caller wrote them.   *)
(* An entry of the hash key is <<value>> for a positional argument and     *)
(* <<name, value>> for an item of kwargs.                                  *)
(***************************************************************************)
ArgTuples == { << >>, <<1>>, <<2>> }
KwArgs == { << >>, << <<"a", 1>>, <<"b", 2>> >>, << <<"b", 2>>, <<"a", 1>> >> }
HashFnNames == {"first_arg", "arg_count"}
RoutedBehaviours == {"ok", "remote_fails"}

\* the order of the keyword names as strings
KeyRank == "a" :> 1 @@ "b" :> 2

RECURSIVE InsertItem(_, _)
InsertItem(sorted, item) ==
    IF sorted = << >> THEN <<item>>
    ELSE IF KeyRank[item[1]] < KeyRank[Head(sorted)[1]] THEN <<item>> \o sorted
    ELSE <<Head(sorted)>> \o InsertItem(Tail(sorted), item)

SortedItems_asgiven(items) == items

\* sorted(kwargs.items())
RECURSIVE SortedItems(_)
SortedItems(items) ==
    IF items = << >> THEN << >>
    ELSE InsertItem(SortedItems(Tail(items)), Head(items))

\* args + tuple(sorted(kwargs.items()))
DefaultHashKey(args, kwargs) ==
    [i \in 1..Len(args) |-> <<args[i]>>] \o SortedItems(kwargs)

\* the built-in hash of a tuple: a fixed function of the entries and their
\* order, which may be negative
HashModulus == 101
HashMultiplier == 37
HashOffset == 50

EntryHash(entry) ==
    IF Len(entry) = 1 THEN entry[1] ELSE 7 * KeyRank[entry[1]] + entry[2]

RECURSIVE TupleHash(_)
TupleHash(key) ==
    IF key = << >> THEN 3
    ELSE (HashMultiplier * TupleHash(SubSeq(key, 1, Len(key) - 1))
            + EntryHash(key[Len(key)])) % HashModulus

PyHash(key) == TupleHash(key) - HashOffset

\* a registered hash function, applied to the arguments of the call
ApplyHashFn(fn, args, kwargs) ==
    IF fn = "first_arg" THEN (IF Len(args) > 0 THEN args[1] ELSE 0)
    ELSE Len(args) + Len(kwargs)

\* lines 219-225: the peer index.  On the custom path line 220 binds hashval
\* and line 223 then reads hashkey, which only the else branch binds:
\* UnboundLocalError.  Line 224 divides by len(self.servers).
SelectServer(own, fns, k, args, kwargs) ==
    IF k \in DOMAIN fns
    THEN [raised |-> TRUE, exc |-> "UnboundLocalError", custom |-> TRUE]
    ELSE IF Len(own) = 0
    THEN [raised |-> TRUE, exc |-> "ZeroDivisionError", custom |-> FALSE]
    ELSE [raised |-> FALSE, custom |-> FALSE,
          index |-> PyHash(DefaultHashKey(args, kwargs)) % Len(own)]

\* HashClient.__getattr__(k)(args, kwargs); `called` lists the peers whose
\* method f invoked, in order
HashClient_call(heap, own, fns, k, args, kwargs, b) ==
    LET sel == SelectServer(own, fns, k, args, kwargs) IN
    IF sel.raised
    THEN [raised |-> TRUE, val |-> sel.exc, server |-> NoTag, index |-> None,
          custom |-> sel.custom, events |-> << >>, called |-> << >>]
    ELSE LET server == own[sel.index + 1]
             r == SimpleClient_call(heap[server], b)
         IN [raised |-> r.raised, val |-> r.val,
             server |-> IF r.raised THEN Some(server) ELSE NoTag,
             index |-> Some(sel.index), custom |-> sel.custom, events |-> r.events,
             called |-> <<server>>]

hadd_server(host, port, server) ==
    /\ Idle
    /\ Len(hservers) < MaxServers
    /\ IsNone(server) => Len(peers) < MaxPeers
    /\ LET r == HashClient_add_server(peers, hservers, allservers, host, port,
                                      server, ctimeout) IN
       /\ peers' = r.heap
       /\ hservers' = r.own
       /\ allservers' = r.all
       /\ last' = AddrResult("add_server", "router", r, server, host, port,
                             <<hservers, allservers>>)
    /\ UNCHANGED <<ctimeout, dispvars, hashfns, threadvars>>

hremove_server(server, host, port) ==
    /\ Idle
    /\ LET r == HashClient_remove_server(RouterClass, peers, hservers, allservers,
                                         server, host, port) IN
       /\ hservers' = r.own
       /\ allservers' = r.all
       /\ last' = AddrResult("remove_server", "router", r, server, host, port,
                             <<hservers, allservers>>)
    /\ UNCHANGED <<peers, ctimeout, dispvars, hashfns, threadvars>>

set_hash(fnname, hashfn) ==
    /\ Idle
    /\ LET r == HashClient_set_hash(hashfns, fnname, hashfn) IN
       /\ hashfns' = r.hashfns
       /\ last' = [op |-> "set_hash", fnname |-> fnname, hashfn |-> hashfn,
                   raised |-> r.raised, val |-> IF r.raised THEN r.exc ELSE "self",
                   before |-> hashfns]
    /\ UNCHANGED <<peers, ctimeout, dispvars, hservers, allservers, threadvars>>

\* router.hashfns[fnname] = hashfn, written by the caller itself: hashfns is
\* a plain attribute (line 199), and since set_hash stores nothing this is
\* the only way an entry gets into the mapping that line 219 consults
StoreHashfn(fnname, hashfn) ==
    /\ Idle
    /\ hashfns' = (fnname :> hashfn) @@ hashfns
    /\ last' = [op |-> "store", raised |-> FALSE, val |-> "none"]
    /\ UNCHANGED <<peers, ctimeout, dispvars, hservers, allservers, threadvars>>

\* router.k(args, kwargs)
RoutedCall(k, args, kwargs, b) ==
    /\ Idle
    /\ LET r == HashClient_call(peers, hservers, hashfns, k, args, kwargs, b) IN
       /\ last' = [op |-> "routed", k |-> k, args |-> args, kwargs |-> kwargs,
                   b |-> b, raised |-> r.raised, val |-> r.val, server |-> r.server,
                   index |-> r.index, custom |-> r.custom, events |-> r.events,
                   called |-> r.called]
       /\ peers' = IF r.called = << >> THEN peers
                   ELSE [peers EXCEPT ![r.called[1]] = AfterCall(@, r.raised)]
    /\ UNCHANGED <<ctimeout, dispvars, hashvars, threadvars>>

NextHash ==
    \/ \E h \in {<<"a">>, <<"b", ":", "2">>} : hadd_server(Some(h), None, None)
    \/ \E p \in PeerIds : hadd_server(None, None, Some(p))
    \/ \E p \in PeerIds : hremove_server(Some(p), None, None)
    \/ \E h \in {<<"b", ":", "2">>} : hremove_server(None, Some(h), None)
    \/ \E k \in Methods, fn \in HashFnNames : set_hash(k, fn)
    \/ \E k \in Methods, fn \in HashFnNames : StoreHashfn(k, fn)
    \/ \E p \in PeerIds : disable(p)
    \/ \E p \in PeerIds : enable(p)
    \/ \E k \in Methods, args \in ArgTuples, kwargs \in KwArgs,
          b \in RoutedBehaviours : RoutedCall(k, args, kwargs, b)

SpecHash == Constructed({None}, BOOLEAN) /\ [][NextHash]_vars

(***************************************************************************)
(* add_server by address, with and without a port argument, on a           *)
(* dispatcher and on a router that were constructed with or without a      *)
(* timeout.                                                                *)
(***************************************************************************)
NextAdd ==
    \/ \E h \in HostArgs, port \in PortArgs : add_server(Some(h), port, None)
    \/ \E h \in HostArgs, port \in PortArgs : hadd_server(Some(h), port, None)

SpecAdd == Constructed(TimeoutArgs, {FALSE}) /\ [][NextAdd]_vars

(***************************************************************************)
(* A router of either class with its `all`: peers are called directly,     *)
(* through the router and through router.all, whose broadcast is the       *)
(* sequential one for a HashClient and the threaded one for a              *)
(* ThreadedHashClient (line 242).                                          *)
(***************************************************************************)

\* router.all.k(args, kwargs), `all` being a ReplicatedClient
AllBroadcast(bs) == Broadcast("all", allservers, bs)

\* router.all.k(args, kwargs), `all` being a ThreadedReplicatedClient
AllParStart(bs) == StartThreads("all", allservers, bs)

NextRouter ==
    \/ hadd_server(Some(<<"b", ":", "2">>), None, None)
    \/ \E p \in PeerIds : hadd_server(None, None, Some(p))
    \/ \E p \in PeerIds : hremove_server(Some(p), None, None)
    \/ set_hash("ping", "first_arg")
    \/ \E p \in PeerIds : enable(p)
    \/ \E p \in PeerIds : disable(p)
    \/ \E p \in PeerIds, b \in BroadcastBehaviours : PeerCall(p, b)
    \/ \E args \in ArgTuples, b \in RoutedBehaviours : RoutedCall("ping", args, << >>, b)
    \/ \E bs \in [1..Len(allservers) -> BroadcastBehaviours] : AllBroadcast(bs)
    \/ \E bs \in [1..Len(allservers) -> BroadcastBehaviours] : AllParStart(bs)
    \/ \E i \in Threads : T_connect(i)
    \/ \E i \in Threads : T_remote(i)
    \/ \E i \in Threads : T_close(i)
    \/ \E i \in Threads : T_acquire(i)
    \/ \E i \in Threads : T_append(i)
    \/ ParReturn
    \/ \E i \in 1..MaxServers : value(i)

SpecRouter == Constructed({None}, BOOLEAN) /\ [][NextRouter]_vars

(***************************************************************************)
(* Claims about the direct call on a peer (SpecPeer).                      *)
(***************************************************************************)
Contains(seq, x) == \E i \in 1..Len(seq) : seq[i] = x

IndexOf(seq, x) == CHOOSE i \in 1..Len(seq) : seq[i] = x

\* C4: every invocation that gets as far as opening its connection has
\* closed it when it ends, whether it returns or raises.
C4_ClosedOnEveryExit ==
    (last.op = "call" /\ Contains(last.events, "connect"))
        => last.sock = "closed"

\* C5: a call on a disabled peer raises ClientDisabledError, opens no
\* connection and attempts no audit write; a call on an enabled peer (so also
\* on one enabled again) is not refused.
C5_DisabledFailsFast ==
    last.op = "call" =>
        IF ~peers[last.peer].enabled
        THEN /\ last.raised
             /\ last.val = "ClientDisabledError"
             /\ last.events = << >>
             /\ last.sock = "none"
        ELSE last.val # "ClientDisabledError"

\* disable(); the call is refused; enable(); the next call goes through
C5_Witness ==
    /\ last.op = "call"
    /\ ~last.raised
    /\ last.after = <<"enable", FALSE, TRUE>>

\* C6: with an audit-log handle, the audit attempt comes before the real
\* connection, no failure of it reaches the caller, and the real call is made:
\* the outcome is the real call's outcome.
C6_AuditBestEffort ==
    (last.op = "call" /\ peers[last.peer].enabled /\ peers[last.peer].file) =>
        /\ last.val # "AuditOpenError"
        /\ Contains(last.events, "audit_open")
        /\ Contains(last.events, "connect")
        /\ IndexOf(last.events, "audit_open") < IndexOf(last.events, "connect")

(***************************************************************************)
(* Claims about the broadcasts (SpecSeq, SpecBroadcast).                   *)
(***************************************************************************)

\* C1: a sequential broadcast returns one outcome per entry of the peer
\* list, the i-th attributed to the i-th peer, whichever peers failed.
C1_OneOutcomePerPeerInOrder ==
    last.op = "broadcast" =>
        /\ ~last.raised
        /\ Len(last.responses) = Len(last.list)
        /\ \A i \in 1..Len(last.list) : last.responses[i].server = last.list[i]

\* the first peer failed and the second was called all the same
C1_Witness ==
    /\ last.op = "broadcast"
    /\ Len(last.list) >= 2
    /\ ~last.responses[1].ok
    /\ last.responses[2].ok

Orderings(n) ==
    {f \in [1..n -> 1..n] : \A i, j \in 1..n : f[i] = f[j] => i = j}

\* C2: a threaded broadcast returns when every thread is done, and what it
\* returns holds the response of each thread exactly once, in some order.
C2_ParallelOnePerPeer ==
    last.op = "par_broadcast" =>
        /\ \A i \in 1..Len(last.tpc) : last.tpc[i] = "done"
        /\ Len(last.responses) = Len(last.list)
        /\ \E f \in Orderings(Len(last.list)) :
              \A i \in 1..Len(last.list) :
                  /\ last.responses[i] = last.tresp[f[i]][1]
                  /\ last.responses[i].server = last.list[f[i]]

\* the second thread appended before the first
C2_Witness ==
    /\ last.op = "par_broadcast"
    /\ Len(last.list) >= 2
    /\ last.tresp[1] # last.tresp[2]
    /\ last.responses[1] = last.tresp[2][1]

\* what peer p gives when it is called on its own and the collaborators do b
Alone(p, b) == Response(p, SimpleClient_call(peers[p], b))

Refused(p) == [server |-> p, ok |-> FALSE, val |-> "ClientDisabledError"]

Occurrences(list, x) == Cardinality({i \in 1..Len(list) : list[i] = x})

\* C3: a broadcast does not raise; a disabled peer gets the failure outcome
\* ClientDisabledError, and the outcome of every peer is the one it gives on
\* its own, whatever the other peers of the list did.
C3_ErrorIsolation ==
    /\ last.op = "broadcast" =>
          /\ ~last.raised
          /\ \A i \in 1..Len(last.list) :
                /\ ~peers[last.list[i]].enabled => last.responses[i] = Refused(last.list[i])
                /\ last.responses[i] = Alone(last.list[i], last.bs[i])
    /\ last.op = "par_broadcast" =>
          /\ ~last.raised
          /\ \A i \in 1..Len(last.list) :
                /\ last.tresp[i] # None
                /\ ~peers[last.list[i]].enabled => last.tresp[i][1] = Refused(last.list[i])
                /\ Occurrences(last.list, last.list[i]) = 1
                      => last.tresp[i][1] = Alone(last.list[i], last.bs[i])
                /\ \E j \in 1..Len(last.responses) : last.responses[j] = last.tresp[i][1]

\* a threaded broadcast over a disabled peer, a peer that failed and ...
C3_Witness ==
    /\ last.op = "par_broadcast"
    /\ \E i, j \in 1..Len(last.list) :
          /\ ~peers[last.list[i]].enabled
          /\ last.tresp[i] = Some(Refused(last.list[i]))
          /\ last.list[j] # last.list[i]
          /\ last.tresp[j][1].ok

(***************************************************************************)
(* Claims about the hash router (SpecHash).                                *)
(***************************************************************************)

\* C7: a call on a router without peers raises NoPeersAvailable and
\* contacts no peer.
C7_EmptyRouterNoPeersAvailable ==
    (last.op = "routed" /\ Len(hservers) = 0) =>
        /\ last.raised
        /\ last.val = "NoPeersAvailable"
        /\ last.events = << >>

\* C8: set_hash(fnname, hashfn) succeeds, afterwards fnname is a key of the
\* mapping that routing consults, bound to hashfn, and the entries of the
\* other method names are as before.
C8_SetHashRegisters ==
    last.op = "set_hash" =>
        /\ ~last.raised
        /\ last.fnname \in DOMAIN hashfns
        /\ hashfns[last.fnname] = last.hashfn
        /\ \A m \in DOMAIN last.before \ {last.fnname} :
              m \in DOMAIN hashfns /\ hashfns[m] = last.before[m]

\* C9: a call of a method that has a registered hash function is routed to
\* the peer at index (that function applied to the arguments) mod peer count.
C9_CustomHashRouting ==
    (last.op = "routed" /\ last.k \in DOMAIN hashfns /\ Len(hservers) > 0) =>
        /\ last.custom
        /\ last.index =
              Some(ApplyHashFn(hashfns[last.k], last.args, last.kwargs) % Len(hservers))

\* C10: the router's own peer list and the peer list of its `all` hold the
\* same peers in the same order, after any add_server and remove_server on
\* the router.
C10_Lockstep == hservers = allservers

\* peers were added, by address and by object, and a remove_server failed
C10_Witness ==
    /\ last.op = "remove_server"
    /\ last.raised
    /\ Len(hservers) >= 2
    /\ hservers = allservers

\* the entry s of a peer list has the address remove_server was given
HasAddress(s, host, port) ==
    LET hp == _canonicalize_hostport(host, port) IN
    IF hp.raised THEN FALSE
    ELSE <<hp.host, hp.port>> = <<peers[s].host, peers[s].port>>

\* a peer list less the entries at that address, the others in their order
WithoutAddress(list, host, port) ==
    SelectSeq(list, LAMBDA s : ~HasAddress(s, host, port))

\* C11: remove_server(host, port) with a well-formed address completes, and
\* leaves each peer list of the object it was called on (the router's own
\* list and the list of its `all`; the dispatcher's one list) equal to what
\* it was before less exactly the entries at that address.
C11_RemovalByAddressExact ==
    (/\ last.op = "remove_server"
     /\ IsNone(last.server)
     /\ ~_canonicalize_hostport(last.host, last.port).raised) =>
        /\ ~last.raised
        /\ last.on = "router" =>
              /\ hservers = WithoutAddress(last.before[1], last.host, last.port)
              /\ allservers = WithoutAddress(last.before[2], last.host, last.port)
        /\ last.on = "dispatcher" =>
              servers = WithoutAddress(last.before[1], last.host, last.port)

\* hash(shard key): of the registered function's value for a method that has
\* one, of the default key otherwise
ShardHash(k, args, kwargs) ==
    IF k \in DOMAIN hashfns
    THEN ApplyHashFn(hashfns[k], args, kwargs)
    ELSE PyHash(DefaultHashKey(args, kwargs))

\* C12: a call on a router with at least one peer invokes exactly one peer,
\* the one at index hash(shard key) mod peer count; if that peer fails (a
\* disabled peer included) the caller gets that peer's failure, tagged with
\* that peer, and no other peer is tried.
C12_ExactlyOnePeer ==
    (last.op = "routed" /\ Len(hservers) >= 1) =>
        LET selected ==
                hservers[(ShardHash(last.k, last.args, last.kwargs) % Len(hservers)) + 1]
            own == SimpleClient_call(peers[selected], last.b)
        IN /\ last.called = <<selected>>
           /\ last.raised = own.raised
           /\ last.val = own.val
           /\ last.raised => last.server = Some(selected)

\* the set of (keyword, value) pairs of a call
KwSet(kwargs) == {kwargs[i] : i \in 1..Len(kwargs)}

\* C13: without a registered hash function, the index a call selects is the
\* one that the positional arguments, the set of (keyword, value) pairs and
\* the peer count determine: in whatever order the keywords are written, and
\* whatever the state of the peers and the operations before.
C13_RoutingDeterminism ==
    (last.op = "routed" /\ ~last.custom /\ Len(hservers) >= 1) =>
        \A kwargs \in KwArgs :
            KwSet(kwargs) = KwSet(last.kwargs) =>
                last.index =
                    Some(PyHash(DefaultHashKey(last.args, kwargs)) % Len(hservers))

\* a call with b=2 written before a=1, on a router of two peers of which
\* the selected one is disabled (the call failed), sent to the second peer
C13_Witness ==
    /\ last.op = "routed"
    /\ ~last.custom
    /\ Len(hservers) >= 2
    /\ last.kwargs = << <<"b", 2>>, <<"a", 1>> >>
    /\ last.index = Some(1)
    /\ last.val = "ClientDisabledError"

\* C14: no peer object is twice in the dispatcher's peer list, after any
\* add_server (by address or with a peer object) and remove_server.
C14_NoDuplicatePeers ==
    \A i, j \in 1..Len(servers) : servers[i] = servers[j] => i = j

(***************************************************************************)
(* Claims about add_server (SpecAdd).                                      *)
(***************************************************************************)
HasColon(h) == \E i \in 1..Len(h) : h[i] = ":"

ColonAt(h) == CHOOSE i \in 1..Len(h) : h[i] = ":"

\* the list(s) add_server was called on hold what they held, and then p
AppendedTo(before, p) ==
    IF last.on = "router"
    THEN hservers = Append(before[1], p) /\ allservers = Append(before[2], p)
    ELSE servers = Append(before[1], p)

NothingAdded(before) ==
    IF last.on = "router"
    THEN hservers = before[1] /\ allservers = before[2]
    ELSE servers = before[1]

\* C16: add_server(host, port) makes a peer with the port argument as its
\* port when there is one; without one and with a host "name:digits" it
\* makes a peer with host name and the integer port; without one and with a
\* host that embeds no port it raises ValueError and no list gets a peer.
C16_AddServerAddress ==
    (last.op = "add_server" /\ IsNone(last.server) /\ ~IsNone(last.host)) =>
        LET h == last.host[1]
            new == Len(peers)
        IN IF ~IsNone(last.port)
           THEN /\ ~last.raised
                /\ peers[new].port = last.port[1]
                /\ AppendedTo(last.before, new)
           ELSE IF HasColon(h)
           THEN /\ ~last.raised
                /\ peers[new].host = Some(SubSeq(h, 1, ColonAt(h) - 1))
                /\ peers[new].port = ParseInt(SubSeq(h, ColonAt(h) + 1, Len(h)))
                /\ AppendedTo(last.before, new)
           ELSE /\ last.raised
                /\ last.val = "ValueError"
                /\ NothingAdded(last.before)

\* a router that holds a peer is given a host without a port, and no port
C16_Witness ==
    /\ last.op = "add_server"
    /\ last.on = "router"
    /\ last.host = Some(<<"a">>)
    /\ IsNone(last.port)
    /\ last.raised
    /\ Len(hservers) = 1
    /\ peers[hservers[1]].port = 2

\* C19: a peer that add_server(host, port) makes on a dispatcher or router
\* constructed with timeout T has timeout T, and the default timeout when
\* the dispatcher or router was constructed without one.
C19_TimeoutReachesPeers ==
    (last.op = "add_server" /\ IsNone(last.server) /\ ~last.raised) =>
        peers[Len(peers)].timeout =
            IF IsNone(ctimeout) THEN _DEFAULT_TIMEOUT ELSE ctimeout[1]

(***************************************************************************)
(* Claims about overlapping invocations on one peer (SpecBroadcast).       *)
(***************************************************************************)

\* C18: in a threaded broadcast, whether or not a peer is listed more than
\* once, an invocation on an enabled peer for which the collaborators work
\* is not disturbed (its connection is not closed under it: it returns the
\* value), and the connection it opened is closed when the broadcast
\* returns.
C18_ConnectionOwnership ==
    last.op = "par_broadcast" =>
        \A i \in 1..Len(last.list) :
            (last.bs[i] = "ok" /\ peers[last.list[i]].enabled) =>
                /\ last.tresp[i][1].ok
                /\ last.socks[i] = "closed"

(***************************************************************************)
(* Claims about a router and its `all` (SpecRouter).                       *)
(***************************************************************************)

\* C15: a failure that reaches the caller is the failure the peer produced,
\* with that peer as its `server`: from a direct call on a peer, from a
\* routed call that got as far as a peer, and from value() of a failed
\* response of a broadcast.
C15_FailuresCarryPeer ==
    /\ (last.op = "call" /\ last.raised) => last.server = Some(last.peer)
    /\ (last.op = "routed" /\ last.called # << >>) =>
          LET own == SimpleClient_call(peers[last.called[1]], last.b) IN
          /\ last.raised = own.raised
          /\ last.val = own.val
          /\ last.raised => last.server = Some(last.called[1])
    /\ (last.op = "value" /\ ~last.resp.ok) =>
          /\ last.raised
          /\ last.val = last.resp.val
          /\ last.server = Some(last.resp.server)

\* the same responses, each as many times, in some order
SameMultiset(s, t) ==
    /\ Len(s) = Len(t)
    /\ \E f \in Orderings(Len(s)) : \A i \in 1..Len(s) : s[i] = t[f[i]]

\* C17: a ThreadedHashClient does what a HashClient does in the same state
\* with the same arguments and the same behaviour of the collaborators:
\* remove_server gives the same result and the same lists, and a broadcast
\* through `all` gives the responses of the sequential broadcast, in some
\* order.  (add_server, set_hash and the routed call are the very methods
\* of HashClient, which ThreadedHashClient inherits.)
C17_ThreadedRouterEquivalent ==
    threaded =>
        /\ (last.op = "remove_server" /\ last.on = "router") =>
              LET r == HashClient_remove_server("HashClient", peers, last.before[1],
                           last.before[2], last.server, last.host, last.port)
              IN /\ last.raised = r.raised
                 /\ last.raised => last.val = r.exc
                 /\ hservers = r.own
                 /\ allservers = r.all
        /\ (last.op = "par_broadcast" /\ last.on = "all") =>
              SameMultiset(last.responses,
                           ReplicatedClient_call(peers, last.list, last.bs))

CallOps == {"call", "routed", "broadcast", "par_start", "par_broadcast"}

\* C20: a step of a direct call, of a routed call or of a broadcast leaves
\* every peer object (enabled flag, host, port), every peer list and the
\* hash-function mapping as they are, whatever its outcome; and an enabled
\* flag changes in a step of enable() or disable() only.
C20_CallsLeaveConfiguration ==
    [][/\ (last'.op \in CallOps \/ mainpc = "join") =>
              UNCHANGED <<peers, servers, hservers, allservers, hashfns>>
       /\ (\E p \in PeerIds : p \in DOMAIN peers' /\ peers'[p].enabled # peers[p].enabled)
              => last'.op \in {"enable", "disable"}]_vars

\* a routed call failed at an enabled peer, and the peer is enabled still
C20_Witness ==
    /\ last.op = "routed"
    /\ last.val = "RemoteError"
    /\ peers[last.called[1]].enabled
    /\ Len(hservers) >= 2

====
